---- MODULE Spec2Model ----
(***************************************************************************)
(* Model of the relevance evaluation pipeline of reddit-content-analyzer:  *)
(* relevanceService.GetRelevantPosts and evaluateSubredditPosts            *)
(* (services/relevancesvc.go), the llm.Client calls GetEmbedding and Chat, *)
(* and the RedditService calls GetPosts and SearchPosts.  One run of       *)
(* GetRelevantPosts is followed from its call to its return; every         *)
(* external call is split into the step that issues it and the step that   *)
(* receives its reply, so that the cancellation of the run's context can   *)
(* fall before, during or after any call.                                  *)
(***************************************************************************)
EXTENDS Integers, Sequences, FiniteSets, TLC

(***************************************************************************)
(* Bounds of the model.                                                    *)
(***************************************************************************)
MaxSources == 2
MaxItems == 2

\* fixed-point scale of float64 relevance scores and thresholds (1000 = 1.0)
Scale == 1000

(***************************************************************************)
(* Request values (contracts.RelevanceRequestDto).                         *)
(***************************************************************************)
SearchMethodSearch == "search"
SearchMethodLatest == "latest"

Topics == {"ai", "ml", "go"}
SubredditNames == {"r1", "r2"}
Thresholds == {0, 707}
Limits == {0, 1, 101}
SearchMethods == {SearchMethodSearch, SearchMethodLatest, "other"}

RECURSIVE SeqsUpTo(_, _)
SeqsUpTo(S, n) ==
    IF n = 0 THEN {<<>>}
    ELSE LET shorter == SeqsUpTo(S, n - 1)
         IN  shorter \cup {Append(s, x) : s \in {t \in shorter : Len(t) = n - 1}, x \in S}

(***************************************************************************)
(* Items of the content source (reddit.RedditChild / RedditPostData).      *)
(* CreatedUTC is a float64 of epoch seconds, here in tenths of a second.   *)
(***************************************************************************)
PostA ==
    [Title |-> "A", Selftext |-> "x ", URL |-> "u1", Score |-> 100,
     NumComments |-> 50, CreatedUTC |-> 17005]

PostB ==
    [Title |-> "B", Selftext |-> "", URL |-> "u2", Score |-> 10,
     NumComments |-> 5, CreatedUTC |-> 18000]

(***************************************************************************)
(* The content source: the listing of a subreddit, of which a reply holds  *)
(* the first n items.  The two subreddits list the same posts in opposite  *)
(* orders.                                                                 *)
(***************************************************************************)
ListingItem(subreddit, j) ==
    IF (subreddit = "r1") = (j % 2 = 1) THEN PostA ELSE PostB

Listing(subreddit, n) == [j \in 1..n |-> ListingItem(subreddit, j)]

(***************************************************************************)
(* Slices: Go distinguishes a nil slice from an empty one.                 *)
(***************************************************************************)
NilSlice == [nil |-> TRUE, elems |-> <<>>]
MakeSlice(s) == [nil |-> FALSE, elems |-> s]

\* the nil error
NoError == <<>>

\* errors.Wrap(err, msg)
Wrap(err, msg) == <<msg>> \o err

(***************************************************************************)
(* The embedding service, as a function of the text it is sent.            *)
(***************************************************************************)
EmbeddingOf(text) ==
    CASE text = "ai"   -> <<1, 0>>
      [] text = "ml"   -> <<1, 1>>
      [] text = "go"   -> <<-1, 0>>
      [] text = "A. x " -> <<1, 0>>
      [] text = "B. "  -> <<1>>
      [] OTHER         -> <<>>

ChatReply == "summary"

(***************************************************************************)
(* CosineSimilarity(a, b): dot(a,b) / (|a| * |b|), 0 when the lengths      *)
(* differ or a magnitude is 0.  Scores are fixed-point, in units of        *)
(* 1/Scale, truncated toward zero.                                         *)
(***************************************************************************)
RECURSIVE Dot(_, _)
Dot(a, b) ==
    IF a = <<>> THEN 0 ELSE Head(a) * Head(b) + Dot(Tail(a), Tail(b))

RECURSIVE SqrtIn(_, _, _)
SqrtIn(n, lo, hi) ==
    IF lo >= hi THEN lo
    ELSE LET mid == (lo + hi + 1) \div 2
         IN  IF mid * mid <= n THEN SqrtIn(n, mid, hi) ELSE SqrtIn(n, lo, mid - 1)

\* the integer square root; 46340 is the largest root of a 32-bit integer
ISqrt(n) == SqrtIn(n, 0, IF n < 46340 THEN n ELSE 46340)

\* variant: two vectors without magnitude count as the same direction
CosineSimilarityOfZeroVectorsIsOne(a, b) ==
    IF Len(a) # Len(b) THEN 0
    ELSE LET dot == Dot(a, b)
             magA2 == Dot(a, a)
             magB2 == Dot(b, b)
         IN  IF magA2 = 0 /\ magB2 = 0 THEN Scale
             ELSE IF magA2 = 0 \/ magB2 = 0 THEN 0
             ELSE LET den == ISqrt(magA2 * magB2 * Scale * Scale)
                      q == ((IF dot < 0 THEN -dot ELSE dot) * Scale * Scale) \div den
                  IN  IF dot < 0 THEN -q ELSE q

CosineSimilarity(a, b) ==
    IF Len(a) # Len(b) THEN 0
    ELSE LET dot == Dot(a, b)
             magA2 == Dot(a, a)
             magB2 == Dot(b, b)
         IN  IF magA2 = 0 \/ magB2 = 0 THEN 0
             ELSE LET den == ISqrt(magA2 * magB2 * Scale * Scale)
                      q == ((IF dot < 0 THEN -dot ELSE dot) * Scale * Scale) \div den
                  IN  IF dot < 0 THEN -q ELSE q

(***************************************************************************)
(* State of one run of GetRelevantPosts.                                   *)
(***************************************************************************)
VARIABLES
    request,            \* the RelevanceRequestDto of the run
    pc,                 \* position of the run in the code
    cancelled,          \* ctx.Done() is closed
    topicEmbedding,     \* GetRelevantPosts: topicEmbedding
    subredditIdx,       \* GetRelevantPosts: index of the range loop
    subredditPostDtos,  \* GetRelevantPosts: accumulator
    subredditPosts,     \* result of the retrieval of the current subreddit
    postIdx,            \* evaluateSubredditPosts: index of the range loop
    evalPostDtos,       \* evaluateSubredditPosts: accumulator
    relevanceScore,     \* evaluateSubredditPosts: relevanceScore
    isRelevant,         \* evaluateSubredditPosts: isRelevant
    response,           \* returned contracts.RelevanceResponseDto
    err,                \* returned error (chain of wrapped messages)
    calls,              \* the calls made to the collaborators, in order
    httpBody,           \* RelevanceHandler: body of the HTTP request
    httpStatus,         \* RelevanceHandler: status of the answer (0: none yet)
    httpReply,          \* RelevanceHandler: body of the answer
    clientCall,         \* reddit.Client: one call of GetPosts or SearchPosts
    chatCall,           \* llm.Client: one call of Chat
    cosCall,            \* one call of CosineSimilarity
    runs,               \* runs of GetRelevantPosts on one service instance
    webParams           \* web client: the params of searchRedditPosts

vars == <<request, pc, cancelled, topicEmbedding, subredditIdx,
          subredditPostDtos, subredditPosts, postIdx, evalPostDtos,
          relevanceScore, isRelevant, response, err, calls,
          httpBody, httpStatus, httpReply, clientCall, chatCall,
          cosCall, runs, webParams>>

\* the state outside the endpoint and the two clients
others == <<cosCall, runs, webParams>>

\* the state outside a run of GetRelevantPosts
outer == <<httpBody, httpStatus, httpReply, clientCall, chatCall, others>>

locals == <<topicEmbedding, subredditIdx, subredditPostDtos, subredditPosts,
            postIdx, evalPostDtos, relevanceScore, isRelevant>>

\* the zero time.Time of a CreatedAfter that was not given
ZeroTime == 0

Requests ==
    [Topic : Topics,
     Subreddits : SeqsUpTo(SubredditNames, MaxSources),
     RelevanceThreshold : Thresholds,
     Limit : Limits,
     CreatedAfter : {ZeroTime},
     MinNumComments : {0},
     SearchMethod : SearchMethods]

\* RelevanceRequestDto{}
ZeroRequest ==
    [Topic |-> "", Subreddits |-> <<>>, RelevanceThreshold |-> 0, Limit |-> 0,
     CreatedAfter |-> ZeroTime, MinNumComments |-> 0, SearchMethod |-> ""]

\* no HTTP request, no answer, no call of a client under way
NoBody ==
    [kind |-> "none", topic |-> "", subreddits |-> <<>>,
     relevance_threshold |-> 0, limit |-> 0, created_after |-> ZeroTime,
     search_method |-> ""]
NoReply == [kind |-> "none", error |-> <<>>, posts |-> NilSlice]
\* a nil *reddit.RedditResponse
NilRedditResponse == [nil |-> TRUE, children |-> <<>>]

NoClientCall ==
    [op |-> "none", limit |-> 0, urlLimit |-> 0, phase |-> "none",
     response |-> NilRedditResponse, error |-> <<>>]
NoChatCall ==
    [state |-> "none", messages |-> <<>>, requests |-> 0, sent |-> <<>>,
     text |-> "", error |-> <<>>]

NoCosCall == [state |-> "none", a |-> <<>>, b |-> <<>>, result |-> 0]
NoRuns == <<>>
NoParams ==
    [given |-> FALSE, topic |-> "", subreddits |-> <<>>,
     relevance_threshold |-> 0, limit |-> 0, search_method |-> ""]

OthersIdle ==
    /\ cosCall = NoCosCall
    /\ runs = NoRuns
    /\ webParams = NoParams

OuterIdle ==
    /\ OthersIdle
    /\ httpBody = NoBody
    /\ httpStatus = 0
    /\ httpReply = NoReply
    /\ clientCall = NoClientCall
    /\ chatCall = NoChatCall

\* the state of a run of GetRelevantPosts before its first step
RunInit ==
    /\ cancelled = FALSE
    /\ topicEmbedding = <<>>
    /\ subredditIdx = 0
    /\ subredditPostDtos = NilSlice
    /\ subredditPosts = <<>>
    /\ postIdx = 0
    /\ evalPostDtos = <<>>
    /\ relevanceScore = 0
    /\ isRelevant = FALSE
    /\ response = [Posts |-> NilSlice]
    /\ err = NoError
    /\ calls = <<>>

Init ==
    /\ request \in Requests
    /\ pc = "start"
    /\ RunInit
    /\ OuterIdle

(***************************************************************************)
(* Calls to the collaborators.  A call is recorded when it is issued:      *)
(*   op      the operation called                                         *)
(*   src     position in request.Subreddits the call is made for (0: none)*)
(*   item    position in the retrieval result the call is made for        *)
(*   ctx     whether the run's context is an argument of the call         *)
(*   args    the other arguments                                          *)
(*   limit   the limit of the HTTP request of a retrieval call            *)
(*   afterCancel  the context was already cancelled when the call started *)
(*   sent    an HTTP request left the process                             *)
(* and completed when its reply arrives (done, ok, value, cancelledAtEnd). *)
(***************************************************************************)
NewCall(op, src, item, ctx, args, limit, sent) ==
    [op |-> op, src |-> src, item |-> item, ctx |-> ctx, args |-> args,
     limit |-> limit, afterCancel |-> cancelled, sent |-> sent,
     done |-> FALSE, ok |-> FALSE, value |-> <<>>, cancelledAtEnd |-> FALSE]

Replied(ok, value) ==
    [calls EXCEPT ![Len(calls)] =
        [@ EXCEPT !.done = TRUE, !.ok = ok, !.value = value,
                  !.cancelledAtEnd = cancelled]]

LastCall == calls[Len(calls)]

\* http.NewRequestWithContext + httpClient.Do: nothing is sent on a context
\* that is already cancelled
SentWithContext == ~cancelled

\* http.NewRequest + httpClient.Do: the request does not see the context
SentWithoutContext == TRUE

\* a call can succeed when its request was sent and, if it carries the
\* context, the context is not cancelled before the reply is complete; any
\* call can fail
MaySucceed(call) == call.sent /\ (call.ctx => ~cancelled)

\* reddit.Client.GetPosts: limit defaulting and capping
ClampLimit(limit) ==
    IF limit <= 0 THEN 25 ELSE IF limit > 100 THEN 100 ELSE limit

\* variant: the limit is defaulted and not capped
SearchPostsLimitUncapped(limit) ==
    IF limit <= 0 THEN 25 ELSE limit

\* reddit.Client.SearchPosts: limit defaulting and capping
SearchPostsLimit(limit) ==
    LET defaulted == IF limit <= 0 THEN 25 ELSE limit
    IN  IF defaulted > 100 THEN 100 ELSE defaulted

LLMFailure == <<"failed to call API">>
RedditFailure == <<"failed to make request">>

\* variant: the accumulated posts are returned along with the error
ReturnErrorWithPosts(e) ==
    /\ pc' = "returned"
    /\ response' = [Posts |-> subredditPostDtos]
    /\ err' = e

ReturnError(e) ==
    /\ pc' = "returned"
    /\ response' = [Posts |-> NilSlice]
    /\ err' = e

(***************************************************************************)
(* GetRelevantPosts, line 39: s.llmClient.GetEmbedding(ctx, request.Topic) *)
(***************************************************************************)
\* variant: the run goes on to the retrievals without waiting for the
\* reply of the topic embedding call
CallTopicEmbeddingAsync ==
    /\ pc = "start"
    /\ calls' = Append(calls, NewCall("GetEmbedding", 0, 0, TRUE,
                                      <<request.Topic>>, 0, SentWithContext))
    /\ subredditPostDtos' = MakeSlice(<<>>)
    /\ subredditIdx' = 1
    /\ pc' = "forSubreddit"
    /\ UNCHANGED <<outer, request, cancelled, topicEmbedding, subredditPosts,
                   postIdx, evalPostDtos, relevanceScore, isRelevant,
                   response, err>>

CallTopicEmbedding ==
    /\ pc = "start"
    /\ calls' = Append(calls, NewCall("GetEmbedding", 0, 0, TRUE,
                                      <<request.Topic>>, 0, SentWithContext))
    /\ pc' = "topicEmbedding"
    /\ UNCHANGED <<outer, request, cancelled, locals, response, err>>

\* variant: the error of the topic embedding is not checked
TopicEmbeddingFailsUnchecked ==
    /\ pc = "topicEmbedding"
    /\ calls' = Replied(FALSE, <<>>)
    /\ topicEmbedding' = <<>>
    /\ subredditPostDtos' = MakeSlice(<<>>)
    /\ subredditIdx' = 1
    /\ pc' = "forSubreddit"
    /\ UNCHANGED <<outer, request, cancelled, subredditPosts, postIdx, evalPostDtos,
                   relevanceScore, isRelevant, response, err>>

TopicEmbeddingFails ==
    /\ pc = "topicEmbedding"
    /\ calls' = Replied(FALSE, <<>>)
    /\ ReturnError(Wrap(LLMFailure, "error getting topic embedding"))
    /\ UNCHANGED <<outer, request, cancelled, locals>>

\* variant: the accumulator is declared and not made, so it starts nil
TopicEmbeddingReturnsNilAccumulator ==
    /\ pc = "topicEmbedding"
    /\ MaySucceed(LastCall)
    /\ LET embedding == EmbeddingOf(LastCall.args[1])
       IN  /\ calls' = Replied(TRUE, embedding)
           /\ topicEmbedding' = embedding
    /\ subredditPostDtos' = NilSlice
    /\ subredditIdx' = 1
    /\ pc' = "forSubreddit"
    /\ UNCHANGED <<outer, request, cancelled, subredditPosts, postIdx, evalPostDtos,
                   relevanceScore, isRelevant, response, err>>

TopicEmbeddingReturns ==
    /\ pc = "topicEmbedding"
    /\ MaySucceed(LastCall)
    /\ LET embedding == EmbeddingOf(LastCall.args[1])
       IN  /\ calls' = Replied(TRUE, embedding)
           /\ topicEmbedding' = embedding
    /\ subredditPostDtos' = MakeSlice(<<>>)
    /\ subredditIdx' = 1
    /\ pc' = "forSubreddit"
    /\ UNCHANGED <<outer, request, cancelled, subredditPosts, postIdx, evalPostDtos,
                   relevanceScore, isRelevant, response, err>>

(***************************************************************************)
(* GetRelevantPosts, lines 45-58: the retrieval of the next subreddit.     *)
(***************************************************************************)
CallSearchPosts ==
    /\ pc = "forSubreddit"
    /\ subredditIdx <= Len(request.Subreddits)
    /\ request.SearchMethod = SearchMethodSearch
    /\ calls' = Append(calls,
           NewCall("SearchPosts", subredditIdx, 0, FALSE,
                   <<request.Subreddits[subredditIdx], request.Topic, request.Limit>>,
                   SearchPostsLimit(request.Limit), SentWithoutContext))
    /\ pc' = "retrieve"
    /\ UNCHANGED <<outer, request, cancelled, locals, response, err>>

\* variant: the "latest" case calls the search operation too
CallGetPostsViaSearch ==
    /\ pc = "forSubreddit"
    /\ subredditIdx <= Len(request.Subreddits)
    /\ request.SearchMethod = SearchMethodLatest
    /\ calls' = Append(calls,
           NewCall("SearchPosts", subredditIdx, 0, FALSE,
                   <<request.Subreddits[subredditIdx], request.Topic, request.Limit>>,
                   SearchPostsLimit(request.Limit), SentWithoutContext))
    /\ pc' = "retrieve"
    /\ UNCHANGED <<outer, request, cancelled, locals, response, err>>

CallGetPosts ==
    /\ pc = "forSubreddit"
    /\ subredditIdx <= Len(request.Subreddits)
    /\ request.SearchMethod = SearchMethodLatest
    /\ calls' = Append(calls,
           NewCall("GetPosts", subredditIdx, 0, FALSE,
                   <<request.Subreddits[subredditIdx], request.Limit>>,
                   ClampLimit(request.Limit), SentWithoutContext))
    /\ pc' = "retrieve"
    /\ UNCHANGED <<outer, request, cancelled, locals, response, err>>

\* neither case of the switch: subredditPosts stays nil and
\* evaluateSubredditPosts dereferences it (line 90)
NoRetrieval ==
    /\ pc = "forSubreddit"
    /\ subredditIdx <= Len(request.Subreddits)
    /\ request.SearchMethod \notin {SearchMethodSearch, SearchMethodLatest}
    /\ pc' = "panicked"
    /\ UNCHANGED <<outer, request, cancelled, locals, response, err, calls>>

RetrievalFails ==
    /\ pc = "retrieve"
    /\ calls' = Replied(FALSE, <<>>)
    /\ ReturnError(Wrap(RedditFailure, "error getting subreddit posts"))
    /\ UNCHANGED <<outer, request, cancelled, locals>>

\* a 200 reply whose body is the JSON value null decodes to a nil
\* *RedditResponse with a nil error; redditService then reads
\* posts.Data.Children (redditsvc.go lines 45, 67)
RetrievalReturnsNil ==
    /\ pc = "retrieve"
    /\ MaySucceed(LastCall)
    /\ calls' = Replied(TRUE, <<>>)
    /\ pc' = "panicked"
    /\ UNCHANGED <<outer, request, cancelled, locals, response, err>>

RetrievalReturns ==
    /\ pc = "retrieve"
    /\ MaySucceed(LastCall)
    /\ \E n \in 0..MaxItems :
          LET children == Listing(LastCall.args[1], n)
          IN  /\ calls' = Replied(TRUE, children)
              /\ subredditPosts' = children
    /\ evalPostDtos' = <<>>
    /\ postIdx' = 1
    /\ pc' = "forPost"
    /\ UNCHANGED <<outer, request, cancelled, topicEmbedding, subredditIdx,
                   subredditPostDtos, relevanceScore, isRelevant, response, err>>

(***************************************************************************)
(* evaluateSubredditPosts, lines 90-102: one item of the current subreddit.*)
(***************************************************************************)
\* getRelevanceScore, line 112: fmt.Sprintf("%s. %s", title, content)
\* variant: no separator after the title of an item without content, and
\* the content is trimmed
EmbeddingTextTrimmed(title, content) ==
    CASE content = ""   -> title
      [] content = "x " -> title \o ". x"
      [] OTHER          -> title \o ". " \o content

EmbeddingText(title, content) == title \o ". " \o content

\* variant: a threshold of 0 is taken as "no threshold"
IsRelevantZeroPassesAll(score, threshold) == threshold = 0 \/ score >= threshold

\* variant: exclusive boundary
IsRelevantStrict(score, threshold) == score > threshold

\* evaluateSubredditPosts, line 95
IsRelevant(score, threshold) == score >= threshold

\* getRelevanceSummary, lines 141-154: the arguments of the prompt's format
Prompt(topic, threshold, relevant, score, title, content) ==
    <<topic, threshold, relevant, score, title, content>>

\* llm.Client.Chat, lines 182-191: only role "user" makes a prompt part
HasUserMessage(messages) ==
    \E i \in 1..Len(messages) : messages[i].Role = "user"

\* time.Unix(int64(post.Data.CreatedUTC), 0): the conversion truncates the
\* fraction of the epoch seconds
TimeUnix(createdUTC) == createdUTC \div 10

\* variant: the score and the comment count of the post change places
MapRedditResponseSwapsCounts(post, subredditName, score, relevant, summary) ==
    [SubredditName |-> subredditName,
     Title |-> post.Title,
     Content |-> post.Selftext,
     Url |-> post.URL,
     Score |-> post.NumComments,
     NumComments |-> post.Score,
     CreatedAt |-> TimeUnix(post.CreatedUTC),
     IsRelevant |-> relevant,
     RelevanceScore |-> score,
     RelevanceSummary |-> summary]

MapRedditResponseToSubredditPostDto(post, subredditName, score, relevant, summary) ==
    [SubredditName |-> subredditName,
     Title |-> post.Title,
     Content |-> post.Selftext,
     Url |-> post.URL,
     Score |-> post.Score,
     NumComments |-> post.NumComments,
     CreatedAt |-> TimeUnix(post.CreatedUTC),
     IsRelevant |-> relevant,
     RelevanceScore |-> score,
     RelevanceSummary |-> summary]

CurrentPost == subredditPosts[postIdx]

CallItemEmbedding ==
    /\ pc = "forPost"
    /\ postIdx <= Len(subredditPosts)
    /\ calls' = Append(calls,
           NewCall("GetEmbedding", subredditIdx, postIdx, TRUE,
                   <<EmbeddingText(CurrentPost.Title, CurrentPost.Selftext)>>,
                   0, SentWithContext))
    /\ pc' = "itemEmbedding"
    /\ UNCHANGED <<outer, request, cancelled, locals, response, err>>

\* variant: a failed item is skipped and the loop goes on
ItemEmbeddingFailsSkipsItem ==
    /\ pc = "itemEmbedding"
    /\ calls' = Replied(FALSE, <<>>)
    /\ postIdx' = postIdx + 1
    /\ pc' = "forPost"
    /\ UNCHANGED <<outer, request, cancelled, topicEmbedding, subredditIdx,
                   subredditPostDtos, subredditPosts, evalPostDtos,
                   relevanceScore, isRelevant, response, err>>

ItemEmbeddingFails ==
    /\ pc = "itemEmbedding"
    /\ calls' = Replied(FALSE, <<>>)
    /\ ReturnError(Wrap(Wrap(Wrap(LLMFailure, "error getting embedding"),
                             "error getting relevance score"),
                        "error evaluating subreddit posts"))
    /\ UNCHANGED <<outer, request, cancelled, locals>>

\* variant: the item's embedding is stored over the topic embedding
ItemEmbeddingReturnsOverTopic ==
    /\ pc = "itemEmbedding"
    /\ MaySucceed(LastCall)
    /\ LET embedding == EmbeddingOf(LastCall.args[1])
           score == CosineSimilarity(embedding, topicEmbedding)
       IN  /\ calls' = Replied(TRUE, embedding)
           /\ relevanceScore' = score
           /\ isRelevant' = IsRelevant(score, request.RelevanceThreshold)
           /\ topicEmbedding' = embedding
    /\ pc' = "summary"
    /\ UNCHANGED <<outer, request, cancelled, subredditIdx,
                   subredditPostDtos, subredditPosts, postIdx, evalPostDtos,
                   response, err>>

\* variant: an embedding of another length than the topic's is an error
ItemEmbeddingReturnsChecksLength ==
    /\ pc = "itemEmbedding"
    /\ MaySucceed(LastCall)
    /\ LET embedding == EmbeddingOf(LastCall.args[1])
           score == CosineSimilarity(embedding, topicEmbedding)
       IN  /\ calls' = Replied(TRUE, embedding)
           /\ IF Len(embedding) # Len(topicEmbedding)
              THEN /\ ReturnError(Wrap(Wrap(<<"embedding length mismatch">>,
                                            "error getting relevance score"),
                                       "error evaluating subreddit posts"))
                   /\ UNCHANGED <<relevanceScore, isRelevant>>
              ELSE /\ relevanceScore' = score
                   /\ isRelevant' = IsRelevant(score, request.RelevanceThreshold)
                   /\ pc' = "summary"
                   /\ UNCHANGED <<response, err>>
    /\ UNCHANGED <<outer, request, cancelled, topicEmbedding, subredditIdx,
                   subredditPostDtos, subredditPosts, postIdx, evalPostDtos>>

ItemEmbeddingReturns ==
    /\ pc = "itemEmbedding"
    /\ MaySucceed(LastCall)
    /\ LET embedding == EmbeddingOf(LastCall.args[1])
           score == CosineSimilarity(embedding, topicEmbedding)
       IN  /\ calls' = Replied(TRUE, embedding)
           /\ relevanceScore' = score
           /\ isRelevant' = IsRelevant(score, request.RelevanceThreshold)
    /\ pc' = "summary"
    /\ UNCHANGED <<outer, request, cancelled, topicEmbedding, subredditIdx,
                   subredditPostDtos, subredditPosts, postIdx, evalPostDtos,
                   response, err>>

\* variant: no explanation is generated for an item that is not relevant
CallChatOnlyIfRelevant ==
    /\ pc = "summary"
    /\ \/ /\ isRelevant
          /\ LET messages ==
                    << [Role |-> "user",
                        Content |-> Prompt(request.Topic, request.RelevanceThreshold,
                                           isRelevant, relevanceScore,
                                           CurrentPost.Title, CurrentPost.Selftext)] >>
             IN  calls' = Append(calls,
                    NewCall("Chat", subredditIdx, postIdx, TRUE, <<messages>>, 0,
                            HasUserMessage(messages) /\ SentWithContext))
          /\ pc' = "chat"
          /\ UNCHANGED <<postIdx, evalPostDtos>>
       \/ /\ ~isRelevant
          /\ evalPostDtos' = Append(evalPostDtos,
                 MapRedditResponseToSubredditPostDto(
                     CurrentPost, request.Subreddits[subredditIdx],
                     relevanceScore, isRelevant, ""))
          /\ postIdx' = postIdx + 1
          /\ pc' = "forPost"
          /\ UNCHANGED calls
    /\ UNCHANGED <<outer, request, cancelled, topicEmbedding, subredditIdx,
                   subredditPostDtos, subredditPosts, relevanceScore,
                   isRelevant, response, err>>

\* getRelevanceSummary, line 156: s.llmClient.Chat(ctx, messages); Chat sends
\* nothing when no message has role "user"
\* variant: the prompt is sent as a message of role "system"
CallChatAsSystem ==
    /\ pc = "summary"
    /\ LET messages ==
              << [Role |-> "system",
                  Content |-> Prompt(request.Topic, request.RelevanceThreshold,
                                     isRelevant, relevanceScore,
                                     CurrentPost.Title, CurrentPost.Selftext)] >>
       IN  calls' = Append(calls,
              NewCall("Chat", subredditIdx, postIdx, TRUE, <<messages>>, 0,
                      HasUserMessage(messages) /\ SentWithContext))
    /\ pc' = "chat"
    /\ UNCHANGED <<outer, request, cancelled, locals, response, err>>

\* the error of a failed Chat call: llm.Client.Chat, lines 189-191, when no
\* message has role "user", else the failure of the request
ChatError(call) ==
    IF HasUserMessage(call.args[1]) THEN LLMFailure
    ELSE <<"no user messages found">>

CallChat ==
    /\ pc = "summary"
    /\ LET messages ==
              << [Role |-> "user",
                  Content |-> Prompt(request.Topic, request.RelevanceThreshold,
                                     isRelevant, relevanceScore,
                                     CurrentPost.Title, CurrentPost.Selftext)] >>
       IN  calls' = Append(calls,
              NewCall("Chat", subredditIdx, postIdx, TRUE, <<messages>>, 0,
                      HasUserMessage(messages) /\ SentWithContext))
    /\ pc' = "chat"
    /\ UNCHANGED <<outer, request, cancelled, locals, response, err>>

\* variant: the generation error is wrapped with the context of the score
ChatFailsWrongContext ==
    /\ pc = "chat"
    /\ calls' = Replied(FALSE, <<>>)
    /\ ReturnError(Wrap(Wrap(Wrap(ChatError(LastCall), "error getting chat response"),
                             "error getting relevance score"),
                        "error evaluating subreddit posts"))
    /\ UNCHANGED <<outer, request, cancelled, locals>>

ChatFails ==
    /\ pc = "chat"
    /\ calls' = Replied(FALSE, <<>>)
    /\ ReturnError(Wrap(Wrap(Wrap(ChatError(LastCall), "error getting chat response"),
                             "error getting relevance summary"),
                        "error evaluating subreddit posts"))
    /\ UNCHANGED <<outer, request, cancelled, locals>>

ChatReturns ==
    /\ pc = "chat"
    /\ MaySucceed(LastCall)
    /\ calls' = Replied(TRUE, <<ChatReply>>)
    /\ evalPostDtos' = Append(evalPostDtos,
           MapRedditResponseToSubredditPostDto(
               CurrentPost, request.Subreddits[subredditIdx],
               relevanceScore, isRelevant, ChatReply))
    /\ postIdx' = postIdx + 1
    /\ pc' = "forPost"
    /\ UNCHANGED <<outer, request, cancelled, topicEmbedding, subredditIdx,
                   subredditPostDtos, subredditPosts, relevanceScore,
                   isRelevant, response, err>>

\* variant: the results of a subreddit are put in front of the earlier ones
AppendDtosInFront(acc, dtos) == MakeSlice(dtos \o acc.elems)

\* variant: only the relevant results of a subreddit are kept
AppendRelevantDtos(acc, dtos) ==
    MakeSlice(acc.elems \o SelectSeq(dtos, LAMBDA d : d.IsRelevant))

\* GetRelevantPosts, line 72: append(subredditPostDtos, evalSubredditPostDtos...)
AppendDtos(acc, dtos) == MakeSlice(acc.elems \o dtos)

\* evaluateSubredditPosts returns (line 103) and GetRelevantPosts appends
EvaluateReturns ==
    /\ pc = "forPost"
    /\ postIdx > Len(subredditPosts)
    /\ subredditPostDtos' = AppendDtos(subredditPostDtos, evalPostDtos)
    /\ subredditIdx' = subredditIdx + 1
    /\ pc' = "forSubreddit"
    /\ UNCHANGED <<outer, request, cancelled, topicEmbedding, subredditPosts, postIdx,
                   evalPostDtos, relevanceScore, isRelevant, response, err, calls>>

\* GetRelevantPosts, lines 75-77
ReturnResponse ==
    /\ pc = "forSubreddit"
    /\ subredditIdx > Len(request.Subreddits)
    /\ pc' = "returned"
    /\ response' = [Posts |-> subredditPostDtos]
    /\ err' = NoError
    /\ UNCHANGED <<outer, request, cancelled, locals, calls>>

(***************************************************************************)
(* The run's context is cancelled (or its deadline passes) while the run   *)
(* has not ended.                                                          *)
(***************************************************************************)
Cancel ==
    /\ pc \notin {"returned", "panicked", "rejected", "web"}
    /\ ~cancelled
    /\ cancelled' = TRUE
    /\ UNCHANGED <<outer, request, pc, locals, response, err, calls>>

Next ==
    \/ CallTopicEmbedding
    \/ TopicEmbeddingFails
    \/ TopicEmbeddingReturns
    \/ CallSearchPosts
    \/ CallGetPosts
    \/ NoRetrieval
    \/ RetrievalFails
    \/ RetrievalReturnsNil
    \/ RetrievalReturns
    \/ CallItemEmbedding
    \/ ItemEmbeddingFails
    \/ ItemEmbeddingReturns
    \/ CallChat
    \/ ChatFails
    \/ ChatReturns
    \/ EvaluateReturns
    \/ ReturnResponse
    \/ Cancel

Spec == Init /\ [][Next]_vars

(***************************************************************************)
(* RelevanceHandler.GetRelevantPosts (api/handlers.go): the HTTP endpoint  *)
(* in front of the service.  A body is either not a JSON object of the     *)
(* DTO's types ("malformed") or an object whose absent fields hold their   *)
(* zero values.                                                            *)
(***************************************************************************)
BodyTopics == {"", "ai", "ml"}
BodySearchMethods == {"", SearchMethodSearch, SearchMethodLatest, "other"}
CreatedAfters == {ZeroTime, 1750}

MalformedBody == [NoBody EXCEPT !.kind = "malformed"]

HttpBodies ==
    {MalformedBody} \cup
    [kind : {"json"},
     topic : BodyTopics,
     subreddits : SeqsUpTo(SubredditNames, MaxSources),
     relevance_threshold : Thresholds,
     limit : Limits,
     created_after : CreatedAfters,
     search_method : BodySearchMethods]

\* c.ShouldBindJSON(&request) returns no error: the body decodes and the
\* binding tags of RelevanceRequestDto are satisfied.
ShouldBindJSONNoOneOf(body) ==
    /\ body.kind = "json"
    /\ body.topic # ""
    /\ body.search_method # ""

ShouldBindJSON(body) ==
    /\ body.kind = "json"
    /\ body.topic # ""
    /\ body.search_method \in {SearchMethodSearch, SearchMethodLatest}

\* the RelevanceRequestDto the body decodes to
BoundRequest(body) ==
    [Topic |-> body.topic,
     Subreddits |-> body.subreddits,
     RelevanceThreshold |-> body.relevance_threshold,
     Limit |-> body.limit,
     CreatedAfter |-> body.created_after,
     MinNumComments |-> 0,
     SearchMethod |-> body.search_method]

BindingError == <<"binding">>

HandlerInit ==
    /\ httpBody \in HttpBodies
    /\ httpStatus = 0
    /\ httpReply = NoReply
    /\ clientCall = NoClientCall
    /\ chatCall = NoChatCall
    /\ request = ZeroRequest
    /\ pc = "bind"
    /\ OthersIdle
    /\ RunInit

\* lines 30-34: the body does not bind; 400 with the binding error
HandlerRejects ==
    /\ pc = "bind"
    /\ ~ShouldBindJSON(httpBody)
    /\ httpStatus' = 400
    /\ httpReply' = [kind |-> "error", error |-> BindingError,
                     posts |-> NilSlice]
    /\ pc' = "rejected"
    /\ UNCHANGED <<others, httpBody, clientCall, chatCall, request, locals,
                   cancelled, response, err, calls>>

\* lines 30 and 36: the body binds and the service is called with it
HandlerCallsService ==
    /\ pc = "bind"
    /\ ShouldBindJSON(httpBody)
    /\ request' = BoundRequest(httpBody)
    /\ pc' = "start"
    /\ UNCHANGED <<outer, locals, cancelled, response, err, calls>>

\* lines 37-41: the service returned an error; 500 with its message
HandlerAnswersError ==
    /\ httpBody.kind = "json"
    /\ httpStatus = 0
    /\ pc = "returned"
    /\ err # NoError
    /\ httpStatus' = 500
    /\ httpReply' = [kind |-> "error", error |-> err, posts |-> NilSlice]
    /\ UNCHANGED <<others, httpBody, clientCall, chatCall, request, pc, locals,
                   cancelled, response, err, calls>>

\* variant: only the posts classified relevant are answered
HandlerAnswersOKRelevantOnly ==
    /\ httpBody.kind = "json"
    /\ httpStatus = 0
    /\ pc = "returned"
    /\ err = NoError
    /\ httpStatus' = 200
    /\ httpReply' = [kind |-> "response", error |-> <<>>,
                     posts |-> [response.Posts EXCEPT
                         !.elems = SelectSeq(@, LAMBDA d : d.IsRelevant)]]
    /\ UNCHANGED <<others, httpBody, clientCall, chatCall, request, pc, locals,
                   cancelled, response, err, calls>>

\* line 42: the service returned a response; 200 with that response
HandlerAnswersOK ==
    /\ httpBody.kind = "json"
    /\ httpStatus = 0
    /\ pc = "returned"
    /\ err = NoError
    /\ httpStatus' = 200
    /\ httpReply' = [kind |-> "response", error |-> <<>>,
                     posts |-> response.Posts]
    /\ UNCHANGED <<others, httpBody, clientCall, chatCall, request, pc, locals,
                   cancelled, response, err, calls>>

\* StartServer: gin.Default() installs the Recovery middleware, which
\* answers a panic of the handler with 500 and no body
HandlerRecovers ==
    /\ httpBody.kind = "json"
    /\ httpStatus = 0
    /\ pc = "panicked"
    /\ httpStatus' = 500
    /\ httpReply' = [kind |-> "empty", error |-> <<>>, posts |-> NilSlice]
    /\ UNCHANGED <<others, httpBody, clientCall, chatCall, request, pc, locals,
                   cancelled, response, err, calls>>

HandlerNext ==
    \/ HandlerRejects
    \/ HandlerCallsService
    \/ HandlerAnswersError
    \/ HandlerAnswersOK
    \/ HandlerRecovers
    \/ CallTopicEmbedding
    \/ TopicEmbeddingFails
    \/ TopicEmbeddingReturns
    \/ CallSearchPosts
    \/ CallGetPosts
    \/ RetrievalFails
    \/ RetrievalReturnsNil
    \/ RetrievalReturns
    \/ CallItemEmbedding
    \/ ItemEmbeddingFails
    \/ ItemEmbeddingReturns
    \/ CallChat
    \/ ChatFails
    \/ ChatReturns
    \/ EvaluateReturns
    \/ ReturnResponse
    \/ Cancel

HandlerSpec == HandlerInit /\ [][HandlerNext]_vars

(***************************************************************************)
(* reddit.Client (infra/reddit/client.go): one call of GetPosts or of      *)
(* SearchPosts with a given limit, up to the limit written into the URL    *)
(* of its HTTP request.                                                    *)
(***************************************************************************)
LimitMargin == 5
LimitInputs == (0 - LimitMargin)..(100 + LimitMargin)

ClientInit ==
    /\ clientCall \in [op : {"none"}, limit : LimitInputs, urlLimit : {0},
                       phase : {"called"}, response : {NilRedditResponse},
                       error : {NoError}]
    /\ httpBody = NoBody
    /\ httpStatus = 0
    /\ httpReply = NoReply
    /\ chatCall = NoChatCall
    /\ request = ZeroRequest
    /\ pc = "idle"
    /\ OthersIdle
    /\ RunInit

\* GetPosts, lines 32-40
ClientGetPosts ==
    /\ clientCall.op = "none"
    /\ clientCall' = [clientCall EXCEPT !.op = "GetPosts", !.phase = "sent",
                          !.urlLimit = ClampLimit(clientCall.limit)]
    /\ UNCHANGED <<others, httpBody, httpStatus, httpReply, chatCall, request, pc,
                   locals, cancelled, response, err, calls>>

\* SearchPosts, lines 70-81
ClientSearchPosts ==
    /\ clientCall.op = "none"
    /\ clientCall' = [clientCall EXCEPT !.op = "SearchPosts",
                          !.phase = "sent",
                          !.urlLimit = SearchPostsLimit(clientCall.limit)]
    /\ UNCHANGED <<others, httpBody, httpStatus, httpReply, chatCall, request, pc,
                   locals, cancelled, response, err, calls>>

\* the rest of the state, which a call of the reddit client leaves alone
notClient == <<others, httpBody, httpStatus, httpReply, chatCall, request,
               pc, locals, cancelled, response, err, calls>>

\* what the client returns: (nil, error) or (redditResponse, nil)
ClientReturns(redditResponse, error) ==
    clientCall' = [clientCall EXCEPT !.phase = "clientReturned",
                       !.response = redditResponse, !.error = error]

\* client.go lines 49-52 (GetPosts), 90-93 (SearchPosts)
ClientDoFails ==
    /\ clientCall.phase = "sent"
    /\ ClientReturns(NilRedditResponse, RedditFailure)
    /\ UNCHANGED notClient

\* lines 55-59, 96-100
ClientStatusNotOK ==
    /\ clientCall.phase = "sent"
    /\ ClientReturns(NilRedditResponse, <<"reddit API returned status">>)
    /\ UNCHANGED notClient

\* lines 61-64, 102-105: the body of the 200 reply is no JSON, or JSON of
\* other types than RedditResponse
ClientDecodeFails ==
    /\ clientCall.phase = "sent"
    /\ ClientReturns(NilRedditResponse, <<"failed to decode response">>)
    /\ UNCHANGED notClient

\* lines 61-65, 102-106: the body of the 200 reply is the JSON value null;
\* Decode sets the *RedditResponse it is given to nil and returns no error
ClientDecodesNull ==
    /\ clientCall.phase = "sent"
    /\ ClientReturns(NilRedditResponse, NoError)
    /\ UNCHANGED notClient

\* lines 61-65, 102-106: the body of the 200 reply is a JSON object
ClientDecodesObject ==
    /\ clientCall.phase = "sent"
    /\ \E n \in 0..MaxItems :
          ClientReturns([nil |-> FALSE, children |-> Listing("r1", n)],
                        NoError)
    /\ UNCHANGED notClient

\* redditsvc.go lines 36-47, 58-69: the wrapper hands on the error, or
\* logs len(posts.Data.Children) and hands on the response
ServiceHandsOn ==
    /\ clientCall.phase = "clientReturned"
    /\ clientCall.error # NoError \/ ~clientCall.response.nil
    /\ clientCall' = [clientCall EXCEPT !.phase = "serviceReturned",
                          !.response = IF clientCall.error # NoError
                                       THEN NilRedditResponse ELSE @]
    /\ UNCHANGED notClient

\* redditsvc.go lines 42-46, 64-68: posts is nil and err is nil; the
\* wrapper dereferences posts
ServicePanics ==
    /\ clientCall.phase = "clientReturned"
    /\ clientCall.error = NoError
    /\ clientCall.response.nil
    /\ clientCall' = [clientCall EXCEPT !.phase = "servicePanicked"]
    /\ UNCHANGED notClient

ClientNext ==
    \/ ClientGetPosts
    \/ ClientSearchPosts
    \/ ClientDoFails
    \/ ClientStatusNotOK
    \/ ClientDecodeFails
    \/ ClientDecodesNull
    \/ ClientDecodesObject
    \/ ServiceHandsOn
    \/ ServicePanics

ClientSpec == ClientInit /\ [][ClientNext]_vars

(***************************************************************************)
(* llm.Client.Chat (infra/llm/client.go, lines 177-242): one call with a   *)
(* given message list.  chatCall.requests counts the HTTP requests sent    *)
(* and chatCall.sent is ChatRequest.Messages of the request.               *)
(***************************************************************************)
MaxMessages == 3
ChatRoles == {"user", "system", "assistant"}
ChatContents == {"", "p"}
ChatMessages == [Role : ChatRoles, Content : ChatContents]

\* lines 182-187: the contents of the messages of role "user"
PromptParts(messages) ==
    LET users == SelectSeq(messages, LAMBDA msg : msg.Role = "user")
    IN  [i \in 1..Len(users) |-> users[i].Content]

ChatInit ==
    /\ chatCall \in [state : {"called"},
                     messages : SeqsUpTo(ChatMessages, MaxMessages),
                     requests : {0}, sent : {<<>>}, text : {""},
                     error : {NoError}]
    /\ httpBody = NoBody
    /\ httpStatus = 0
    /\ httpReply = NoReply
    /\ clientCall = NoClientCall
    /\ request = ZeroRequest
    /\ pc = "idle"
    /\ OthersIdle
    /\ RunInit

\* lines 189-191
ChatNoUserMessages ==
    /\ chatCall.state = "called"
    /\ Len(PromptParts(chatCall.messages)) = 0
    /\ chatCall' = [chatCall EXCEPT !.state = "returned", !.text = "",
                        !.error = <<"no user messages found">>]
    /\ UNCHANGED <<others, httpBody, httpStatus, httpReply, clientCall, request, pc,
                   locals, cancelled, response, err, calls>>

\* variant: the request holds the messages of role "user" only
ChatSendsUserMessagesOnly ==
    /\ chatCall.state = "called"
    /\ Len(PromptParts(chatCall.messages)) # 0
    /\ chatCall' = [chatCall EXCEPT !.state = "sent", !.requests = @ + 1,
                        !.sent = SelectSeq(chatCall.messages,
                                           LAMBDA msg : msg.Role = "user")]
    /\ UNCHANGED <<others, httpBody, httpStatus, httpReply, clientCall, request, pc,
                   locals, cancelled, response, err, calls>>

\* lines 195-216: ChatRequest{Messages: messages} is posted
ChatSendsRequest ==
    /\ chatCall.state = "called"
    /\ Len(PromptParts(chatCall.messages)) # 0
    /\ chatCall' = [chatCall EXCEPT !.state = "sent", !.requests = @ + 1,
                        !.sent = chatCall.messages]
    /\ UNCHANGED <<others, httpBody, httpStatus, httpReply, clientCall, request, pc,
                   locals, cancelled, response, err, calls>>

\* lines 217-237: no reply, a status other than 200, an undecodable body
\* or no choice
ChatRequestFails ==
    /\ chatCall.state = "sent"
    /\ chatCall' = [chatCall EXCEPT !.state = "returned", !.text = "",
                        !.error = LLMFailure]
    /\ UNCHANGED <<others, httpBody, httpStatus, httpReply, clientCall, request, pc,
                   locals, cancelled, response, err, calls>>

\* lines 239-241
ChatRequestReturns ==
    /\ chatCall.state = "sent"
    /\ chatCall' = [chatCall EXCEPT !.state = "returned",
                        !.text = ChatReply, !.error = NoError]
    /\ UNCHANGED <<others, httpBody, httpStatus, httpReply, clientCall, request, pc,
                   locals, cancelled, response, err, calls>>

ChatNext ==
    \/ ChatNoUserMessages
    \/ ChatSendsRequest
    \/ ChatRequestFails
    \/ ChatRequestReturns

ChatSpec == ChatInit /\ [][ChatNext]_vars

(***************************************************************************)
(* CosineSimilarity: one call with two given vectors.                      *)
(***************************************************************************)
MaxDim == 2
Components == {-1, 0, 1}
Vectors == SeqsUpTo(Components, MaxDim)

CosInit ==
    /\ cosCall \in [state : {"called"}, a : Vectors, b : Vectors,
                    result : {0}]
    /\ runs = NoRuns
    /\ webParams = NoParams
    /\ httpBody = NoBody
    /\ httpStatus = 0
    /\ httpReply = NoReply
    /\ clientCall = NoClientCall
    /\ chatCall = NoChatCall
    /\ request = ZeroRequest
    /\ pc = "idle"
    /\ RunInit

CosineSimilarityReturns ==
    /\ cosCall.state = "called"
    /\ cosCall' = [cosCall EXCEPT !.state = "returned",
                       !.result = CosineSimilarity(cosCall.a, cosCall.b)]
    /\ UNCHANGED <<runs, webParams, httpBody, httpStatus, httpReply,
                   clientCall, chatCall, request, pc, locals, cancelled,
                   response, err, calls>>

CosNext == CosineSimilarityReturns

CosSpec == CosInit /\ [][CosNext]_vars

(***************************************************************************)
(* Concurrent runs of GetRelevantPosts on one relevanceService (each HTTP  *)
(* request is served by its own goroutine).  The service holds a logger    *)
(* and its two collaborators and nothing a run writes; the locals of a     *)
(* run live in the frame of its invocation.  A step is one external call   *)
(* with its reply, or the local code between two calls.  A retrieval       *)
(* replies the first RunItems items of the listing; with failing = "Chat"  *)
(* the generation calls of the run fail.                                   *)
(***************************************************************************)
MaxRuns == 2
RunItems == 1

RunConfigs ==
    { [request |-> [ZeroRequest EXCEPT !.Topic = "ai",
                        !.Subreddits = <<"r1", "r2">>,
                        !.RelevanceThreshold = 707,
                        !.SearchMethod = SearchMethodSearch],
       failing |-> "none"],
      [request |-> [ZeroRequest EXCEPT !.Topic = "go",
                        !.Subreddits = <<"r2">>,
                        !.SearchMethod = SearchMethodLatest],
       failing |-> "none"],
      [request |-> [ZeroRequest EXCEPT !.Topic = "ml",
                        !.Subreddits = <<"r1">>,
                        !.RelevanceThreshold = 707,
                        !.SearchMethod = SearchMethodSearch],
       failing |-> "Chat"] }

\* a run at its call
NewRun(config) ==
    [request |-> config.request, failing |-> config.failing, pc |-> "start",
     topicEmbedding |-> <<>>, subredditPostDtos |-> NilSlice,
     subredditIdx |-> 0, subredditPosts |-> <<>>, postIdx |-> 0,
     evalPostDtos |-> <<>>, relevanceScore |-> 0, isRelevant |-> FALSE,
     response |-> [Posts |-> NilSlice], err |-> NoError]

RunsInit ==
    /\ \E n \in 1..MaxRuns :
          \E configs \in [1..n -> RunConfigs] :
              runs = [r \in 1..n |-> NewRun(configs[r])]
    /\ cosCall = NoCosCall
    /\ webParams = NoParams
    /\ httpBody = NoBody
    /\ httpStatus = 0
    /\ httpReply = NoReply
    /\ clientCall = NoClientCall
    /\ chatCall = NoChatCall
    /\ request = ZeroRequest
    /\ pc = "idle"
    /\ RunInit

\* variant: topicEmbedding and subredditPostDtos are fields of the service
FrameOfService(r) == 1

\* the frame that holds topicEmbedding and subredditPostDtos of run r:
\* they are locals of GetRelevantPosts (lines 39 and 44)
FrameOf(r) == r

\* the runs after run r has stepped to `run` and stored `locals` in its frame
Stepped(r, run, topic, dtos) ==
    [[runs EXCEPT ![r] = run]
        EXCEPT ![FrameOf(r)].topicEmbedding = topic,
               ![FrameOf(r)].subredditPostDtos = dtos]

\* line 39 to line 44
RunTopicEmbedding(r) ==
    /\ runs[r].pc = "start"
    /\ runs' = Stepped(r,
           [runs[r] EXCEPT !.pc = "forSubreddit", !.subredditIdx = 1],
           EmbeddingOf(runs[r].request.Topic), MakeSlice(<<>>))

\* lines 45-58, and 88-89 of evaluateSubredditPosts
RunRetrieval(r) ==
    /\ runs[r].pc = "forSubreddit"
    /\ runs[r].subredditIdx <= Len(runs[r].request.Subreddits)
    /\ runs' = [runs EXCEPT ![r] =
           [@ EXCEPT !.subredditPosts =
                         Listing(runs[r].request.Subreddits[
                                     runs[r].subredditIdx], RunItems),
                     !.postIdx = 1,
                     !.evalPostDtos = <<>>,
                     !.pc = "forPost"]]

\* lines 90-95
RunItemEmbedding(r) ==
    /\ runs[r].pc = "forPost"
    /\ runs[r].postIdx <= Len(runs[r].subredditPosts)
    /\ LET post == runs[r].subredditPosts[runs[r].postIdx]
           score == CosineSimilarity(
                        EmbeddingOf(EmbeddingText(post.Title, post.Selftext)),
                        runs[FrameOf(r)].topicEmbedding)
       IN  runs' = [runs EXCEPT ![r] =
               [@ EXCEPT !.relevanceScore = score,
                         !.isRelevant =
                             IsRelevant(score,
                                        runs[r].request.RelevanceThreshold),
                         !.pc = "summary"]]

\* lines 96-101
RunChat(r) ==
    /\ runs[r].pc = "summary"
    /\ IF runs[r].failing = "Chat"
       THEN runs' = [runs EXCEPT ![r] =
               [@ EXCEPT !.pc = "returned",
                         !.response = [Posts |-> NilSlice],
                         !.err = Wrap(Wrap(Wrap(LLMFailure,
                                     "error getting chat response"),
                                     "error getting relevance summary"),
                                     "error evaluating subreddit posts")]]
       ELSE runs' = [runs EXCEPT ![r] =
               [@ EXCEPT !.evalPostDtos = Append(@,
                             MapRedditResponseToSubredditPostDto(
                                 runs[r].subredditPosts[runs[r].postIdx],
                                 runs[r].request.Subreddits[runs[r].subredditIdx],
                                 runs[r].relevanceScore, runs[r].isRelevant,
                                 ChatReply)),
                         !.postIdx = @ + 1,
                         !.pc = "forPost"]]

\* line 103 and line 72
RunEvaluateReturns(r) ==
    /\ runs[r].pc = "forPost"
    /\ runs[r].postIdx > Len(runs[r].subredditPosts)
    /\ runs' = Stepped(r,
           [runs[r] EXCEPT !.subredditIdx = @ + 1, !.pc = "forSubreddit"],
           runs[FrameOf(r)].topicEmbedding,
           AppendDtos(runs[FrameOf(r)].subredditPostDtos,
                      runs[r].evalPostDtos))

\* lines 75-77
RunReturns(r) ==
    /\ runs[r].pc = "forSubreddit"
    /\ runs[r].subredditIdx > Len(runs[r].request.Subreddits)
    /\ runs' = [runs EXCEPT ![r] =
           [@ EXCEPT !.pc = "returned",
                     !.response =
                         [Posts |-> runs[FrameOf(r)].subredditPostDtos],
                     !.err = NoError]]

RunsNext ==
    /\ \E r \in 1..Len(runs) :
          \/ RunTopicEmbedding(r)
          \/ RunRetrieval(r)
          \/ RunItemEmbedding(r)
          \/ RunChat(r)
          \/ RunEvaluateReturns(r)
          \/ RunReturns(r)
    /\ UNCHANGED <<cosCall, webParams, httpBody, httpStatus, httpReply,
                   clientCall, chatCall, request, pc, locals, cancelled,
                   response, err, calls>>

RunsSpec == RunsInit /\ [][RunsNext]_vars

(***************************************************************************)
(* The web client (web/src/services/api.js): searchRedditPosts(params)     *)
(* formats the request body and posts it to the endpoint.  Numbers are in  *)
(* units of 1/Scale where they are thresholds.                             *)
(***************************************************************************)
WebParams ==
    [given : {TRUE},
     topic : {"", "ai"},
     subreddits : SeqsUpTo(SubredditNames, MaxSources),
     relevance_threshold : Thresholds,
     limit : {0, 1},
     search_method : {"", SearchMethodLatest}]

\* JavaScript's x || d for a number and for a string: 0 and '' are falsy
OrNumber(x, d) == IF x = 0 THEN d ELSE x
OrString(x, d) == IF x = "" THEN d ELSE x

\* lines 15-25: requestData
RequestData(params) ==
    [kind |-> "json",
     topic |-> OrString(params.topic, ""),
     subreddits |-> params.subreddits,
     relevance_threshold |-> OrNumber(params.relevance_threshold, Scale \div 2),
     limit |-> OrNumber(params.limit, 25),
     created_after |-> ZeroTime,
     search_method |-> OrString(params.search_method, SearchMethodSearch)]

WebInit ==
    /\ webParams \in WebParams
    /\ cosCall = NoCosCall
    /\ runs = NoRuns
    /\ httpBody = NoBody
    /\ httpStatus = 0
    /\ httpReply = NoReply
    /\ clientCall = NoClientCall
    /\ chatCall = NoChatCall
    /\ request = ZeroRequest
    /\ pc = "web"
    /\ RunInit

\* line 27: api.post('/reddit/relevance/search', requestData)
WebSearchRedditPosts ==
    /\ pc = "web"
    /\ httpBody' = RequestData(webParams)
    /\ pc' = "bind"
    /\ UNCHANGED <<others, httpStatus, httpReply, clientCall, chatCall,
                   request, locals, cancelled, response, err, calls>>

WebNext == WebSearchRedditPosts \/ HandlerNext

WebSpec == WebInit /\ [][WebNext]_vars

(***************************************************************************)
(* Vocabulary of the properties.                                           *)
(***************************************************************************)
Returned == pc = "returned"
Failed == Returned /\ err # NoError
Succeeded == Returned /\ err = NoError

Posts == response.Posts.elems

IsRetrieval(c) == c.op \in {"SearchPosts", "GetPosts"}
IsTopicEmbedding(c) == c.op = "GetEmbedding" /\ c.src = 0
IsItemEmbedding(c) == c.op = "GetEmbedding" /\ c.src > 0

CallIndexes == 1..Len(calls)

\* the items the retrieval for position i of request.Subreddits returned
RetrievedAt(i) ==
    LET k == CHOOSE k \in CallIndexes : IsRetrieval(calls[k]) /\ calls[k].src = i
    IN  calls[k].value

\* <<subreddit, title>> of every retrieved item, by source position and then
\* by position in the retrieval result, from source position i on
RECURSIVE RetrievedFrom(_)
RetrievedFrom(i) ==
    IF i > Len(request.Subreddits) THEN <<>>
    ELSE [j \in 1..Len(RetrievedAt(i)) |->
             <<request.Subreddits[i], RetrievedAt(i)[j].Title>>]
         \o RetrievedFrom(i + 1)

RECURSIVE RetrievedCountFrom(_)
RetrievedCountFrom(i) ==
    IF i > Len(request.Subreddits) THEN 0
    ELSE Len(RetrievedAt(i)) + RetrievedCountFrom(i + 1)

(***************************************************************************)
(* C1: whenever GetRelevantPosts returns an error, the returned response   *)
(* holds no posts, also when items had already been evaluated.             *)
(***************************************************************************)
C1_AllOrNothing == Failed => (response.Posts.nil /\ Len(Posts) = 0)

\* a run fails after the items of an earlier source were fully evaluated
C1_Witness == Failed /\ Len(subredditPostDtos.elems) > 0 /\ Len(Posts) = 0

(***************************************************************************)
(* C2: on success the output lists the results by position of the source   *)
(* in the request and, within a source, in retrieval order.                *)
(***************************************************************************)
C2_OutputOrder ==
    Succeeded =>
        [k \in 1..Len(Posts) |-> <<Posts[k].SubredditName, Posts[k].Title>>]
            = RetrievedFrom(1)

\* two different sources, two different items each
C2_Witness ==
    /\ Succeeded
    /\ Len(Posts) = 4
    /\ Posts[1].Title # Posts[2].Title
    /\ Posts[2].SubredditName # Posts[3].SubredditName

(***************************************************************************)
(* C3: on success the output holds one result per retrieved item and       *)
(* nothing else: its length is the sum of the item counts over the source  *)
(* positions, and items classified not relevant are kept.                  *)
(***************************************************************************)
C3_OneResultPerItem ==
    Succeeded =>
        /\ Len(Posts) = RetrievedCountFrom(1)
        /\ Cardinality({k \in CallIndexes : calls[k].op = "Chat" /\ calls[k].ok})
              = Len(Posts)
        /\ Cardinality({k \in 1..Len(Posts) : ~Posts[k].IsRelevant})
              = Cardinality({k \in CallIndexes :
                    /\ calls[k].op = "Chat"
                    /\ ~calls[k].args[1][1].Content[3]})

\* a source listed twice, and a result that is not relevant
C3_Witness ==
    /\ Succeeded
    /\ Len(request.Subreddits) = 2
    /\ request.Subreddits[1] = request.Subreddits[2]
    /\ Len(Posts) = 3
    /\ \E k \in 1..Len(Posts) : ~Posts[k].IsRelevant

(***************************************************************************)
(* C4: a result is relevant exactly when its score is at least the         *)
(* request's threshold; a score equal to the threshold is relevant.        *)
(***************************************************************************)
C4_InclusiveThreshold ==
    \A k \in 1..Len(Posts) :
        Posts[k].IsRelevant
            <=> Posts[k].RelevanceScore >= request.RelevanceThreshold

\* a result whose score equals a threshold that is not 0
C4_Witness ==
    /\ Succeeded
    /\ \E k \in 1..Len(Posts) :
          /\ Posts[k].RelevanceScore = request.RelevanceThreshold
          /\ request.RelevanceThreshold > 0
          /\ Posts[k].IsRelevant
    /\ \E k \in 1..Len(Posts) : ~Posts[k].IsRelevant

(***************************************************************************)
(* C5: the topic embedding is requested exactly once, before any           *)
(* retrieval, and every item is scored against the value it returned.      *)
(***************************************************************************)
C5_TopicEmbeddingOnce ==
    /\ \A k \in CallIndexes : IsTopicEmbedding(calls[k]) <=> k = 1
    /\ pc # "start" => Len(calls) >= 1 /\ calls[1].args = <<request.Topic>>
    /\ \A k \in CallIndexes :
          calls[k].op = "Chat" =>
              /\ IsItemEmbedding(calls[k - 1])
              /\ calls[k].args[1][1].Content[4]
                    = CosineSimilarity(calls[k - 1].value, calls[1].value)

\* three items scored in one run, with a score that two different embeddings
\* cannot give by accident
C5_Witness ==
    /\ Succeeded
    /\ Len(Posts) >= 3
    /\ \E k \in 1..Len(Posts) : Posts[k].RelevanceScore = 707

(***************************************************************************)
(* C6: with an empty source list and a successful topic embedding the run  *)
(* returns no error and an empty, non-nil list after exactly one call.     *)
(***************************************************************************)
C6_EmptySources ==
    (Returned /\ request.Subreddits = <<>> /\ calls[1].ok) =>
        /\ err = NoError
        /\ response.Posts = MakeSlice(<<>>)
        /\ Len(calls) = 1
        /\ IsTopicEmbedding(calls[1])

C6_Witness ==
    Returned /\ request.Subreddits = <<>> /\ calls[1].ok /\ Len(Posts) = 0

(***************************************************************************)
(* C7: when the topic embedding call fails the run returns an error and    *)
(* makes no retrieval, item embedding or generation call.                  *)
(***************************************************************************)
C7_TopicEmbeddingFailure ==
    (Len(calls) >= 1 /\ calls[1].done /\ ~calls[1].ok) =>
        /\ Failed
        /\ Len(calls) = 1

\* the topic embedding fails although there are sources to retrieve
C7_Witness ==
    /\ Failed
    /\ ~calls[1].ok
    /\ Len(request.Subreddits) = 2
    /\ request.SearchMethod = SearchMethodLatest

(***************************************************************************)
(* C8: no call is attempted twice, and no call follows a failed call.      *)
(***************************************************************************)
C8_FailFastNoRetry ==
    /\ \A i, j \in CallIndexes :
          i < j => \/ calls[i].op # calls[j].op
                   \/ calls[i].src # calls[j].src
                   \/ calls[i].item # calls[j].item
    /\ \A i \in CallIndexes : i < Len(calls) => calls[i].done /\ calls[i].ok
    /\ (Len(calls) >= 1 /\ LastCall.done /\ ~LastCall.ok) => Failed

\* the embedding of the first item of the second source fails
C8_Witness ==
    /\ Failed
    /\ IsItemEmbedding(LastCall)
    /\ ~LastCall.ok
    /\ ~cancelled
    /\ LastCall.src = 2
    /\ Len(subredditPosts) = 2

(***************************************************************************)
(* C9: once the cancellation signal has fired, no external call is         *)
(* started, and the run returns an error and no posts.  The signal counts  *)
(* here only when it fired before the reply of some call was complete.     *)
(***************************************************************************)
C9_CancellationAborts ==
    /\ \A k \in CallIndexes : ~(calls[k].afterCancel /\ calls[k].sent)
    /\ (Returned /\ \E k \in CallIndexes : calls[k].cancelledAtEnd) =>
            (err # NoError /\ Len(Posts) = 0)

(***************************************************************************)
(* C10: the run's context is an argument of every external call.           *)
(***************************************************************************)
C10_ContextOnEveryCall == \A k \in CallIndexes : calls[k].ctx

(***************************************************************************)
(* C11: the search method alone selects the retrieval operation: "search"  *)
(* retrieves every source by SearchPosts(source, topic, limit), "latest"   *)
(* by GetPosts(source, limit); one retrieval call per position of the      *)
(* source list, with the request's limit unchanged.                        *)
(***************************************************************************)
RetrievalCallsAt(i) ==
    {k \in CallIndexes : IsRetrieval(calls[k]) /\ calls[k].src = i}

C11_ModeSelectsRetrieval ==
    /\ \A k \in CallIndexes :
          IsRetrieval(calls[k]) =>
              LET source == request.Subreddits[calls[k].src]
              IN  \/ /\ request.SearchMethod = SearchMethodSearch
                     /\ calls[k].op = "SearchPosts"
                     /\ calls[k].args = <<source, request.Topic, request.Limit>>
                  \/ /\ request.SearchMethod = SearchMethodLatest
                     /\ calls[k].op = "GetPosts"
                     /\ calls[k].args = <<source, request.Limit>>
    /\ \A i \in 1..Len(request.Subreddits) :
          /\ Cardinality(RetrievalCallsAt(i)) <= 1
          /\ Succeeded => Cardinality(RetrievalCallsAt(i)) = 1

\* a run in mode "latest" over two sources with a limit above the cap
C11_Witness ==
    /\ Succeeded
    /\ request.SearchMethod = SearchMethodLatest
    /\ Len(request.Subreddits) = 2
    /\ request.Limit = 101
    /\ Len(Posts) >= 1

(***************************************************************************)
(* C12: every item whose embedding call succeeded gets its generation call *)
(* next, with the classification already made, relevant or not; a result   *)
(* that is not relevant carries its explanation.                           *)
(***************************************************************************)
C12_ExplanationUnconditional ==
    /\ \A k \in CallIndexes :
          (IsItemEmbedding(calls[k]) /\ calls[k].ok) =>
              \/ k = Len(calls) /\ pc = "summary"
              \/ /\ k < Len(calls)
                 /\ calls[k + 1].op = "Chat"
                 /\ calls[k + 1].src = calls[k].src
                 /\ calls[k + 1].item = calls[k].item
                 /\ LET prompt == calls[k + 1].args[1][1].Content
                    IN  prompt[3] <=> prompt[4] >= request.RelevanceThreshold
    /\ \A k \in 1..Len(Posts) : Posts[k].RelevanceSummary = ChatReply

\* a returned result that is not relevant and has its explanation
C12_Witness ==
    /\ Succeeded
    /\ \E k \in 1..Len(Posts) :
          ~Posts[k].IsRelevant /\ Posts[k].RelevanceSummary = ChatReply
    /\ \E k \in 1..Len(Posts) : Posts[k].IsRelevant

(***************************************************************************)
(* C13, as claimed: with a threshold of 0 every evaluated item is          *)
(* relevant, whatever its score.                                           *)
(***************************************************************************)
C13_ZeroThresholdAllRelevant ==
    request.RelevanceThreshold = 0 =>
        \A k \in 1..Len(Posts) : Posts[k].IsRelevant

(***************************************************************************)
(* C13, amended: with a threshold of 0 an item is relevant exactly when    *)
(* its score is not negative; an item of negative score is not relevant.   *)
(***************************************************************************)
C13_ZeroThresholdNonNegative ==
    request.RelevanceThreshold = 0 =>
        \A k \in 1..Len(Posts) :
            Posts[k].IsRelevant <=> Posts[k].RelevanceScore >= 0

\* threshold 0, one result of negative score and one of score 0
C13_Witness ==
    /\ Succeeded
    /\ request.RelevanceThreshold = 0
    /\ \E k \in 1..Len(Posts) :
          Posts[k].RelevanceScore < 0 /\ ~Posts[k].IsRelevant
    /\ \E k \in 1..Len(Posts) :
          Posts[k].RelevanceScore = 0 /\ Posts[k].IsRelevant

(***************************************************************************)
(* The stage contexts a message of the error chain contains, of the four   *)
(* "topic embedding", "subreddit posts", "relevance score" and             *)
(* "relevance summary".                                                    *)
(***************************************************************************)
ContextsOf(msg) ==
    CASE msg = "error getting topic embedding"    -> {"topic embedding"}
      [] msg = "error getting subreddit posts"    -> {"subreddit posts"}
      [] msg = "error evaluating subreddit posts" -> {"subreddit posts"}
      [] msg = "error getting relevance score"    -> {"relevance score"}
      [] msg = "error getting relevance summary"  -> {"relevance summary"}
      [] OTHER                                    -> {}

ContextsIn(e) == UNION {ContextsOf(e[i]) : i \in 1..Len(e)}

\* the stage of the call that failed
FailedStage ==
    CASE IsTopicEmbedding(LastCall) -> "topic embedding"
      [] IsRetrieval(LastCall)      -> "subreddit posts"
      [] IsItemEmbedding(LastCall)  -> "relevance score"
      [] OTHER                      -> "relevance summary"

(***************************************************************************)
(* C14, as claimed: a returned error carries the context of the stage      *)
(* whose call failed and of no other stage.                                *)
(***************************************************************************)
C14_OnlyOwnContext == Failed => ContextsIn(err) = {FailedStage}

(***************************************************************************)
(* C14, amended: a returned error carries the context of the stage whose   *)
(* call failed; an item embedding or generation failure carries in         *)
(* addition the context "subreddit posts" of the evaluation it aborted,    *)
(* and no error carries any other context, so the four origins differ.     *)
(***************************************************************************)
C14_OwnContextAndEvaluation ==
    Failed =>
        ContextsIn(err) =
            IF FailedStage \in {"relevance score", "relevance summary"}
            THEN {FailedStage, "subreddit posts"}
            ELSE {FailedStage}

\* a generation call fails
C14_Witness ==
    /\ Failed
    /\ LastCall.op = "Chat"
    /\ "relevance summary" \in ContextsIn(err)
    /\ "subreddit posts" \in ContextsIn(err)

(***************************************************************************)
(* Vocabulary of the endpoint.                                             *)
(***************************************************************************)
\* the body is a JSON object with a topic and a search mode of "search" or
\* "latest"
BodyIsValid ==
    /\ httpBody.kind = "json"
    /\ httpBody.topic # ""
    /\ httpBody.search_method \in {"search", "latest"}

Answered == httpStatus # 0
ReplyPosts == httpReply.posts.elems

(***************************************************************************)
(* C15: a body that is malformed, lacks the topic, or lacks or misstates   *)
(* the search mode is answered 400 and the service is never invoked; an    *)
(* error of the service is answered 500 with a message and no posts; a     *)
(* success is answered 200 with exactly the response of the service.       *)
(***************************************************************************)
C15_StatusMapping ==
    /\ ~BodyIsValid =>
          /\ pc \in {"bind", "rejected"}
          /\ calls = <<>>
          /\ request = ZeroRequest
          /\ pc = "rejected" =>
                /\ httpStatus = 400
                /\ httpReply.kind = "error"
                /\ httpReply.posts = NilSlice
    /\ httpStatus = 400 => ~BodyIsValid
    /\ (BodyIsValid /\ pc # "bind") => request = BoundRequest(httpBody)
    /\ (Answered /\ Failed) =>
          /\ httpStatus = 500
          /\ httpReply = [kind |-> "error", error |-> err,
                          posts |-> NilSlice]
    /\ (Answered /\ Succeeded) =>
          /\ httpStatus = 200
          /\ httpReply = [kind |-> "response", error |-> <<>>,
                          posts |-> response.Posts]
    /\ httpStatus = 200 => Succeeded
    /\ httpStatus = 500 => (Failed \/ pc = "panicked")

\* a 500 after results had been accumulated
C15_Witness ==
    /\ httpStatus = 500
    /\ Failed
    /\ Len(subredditPostDtos.elems) > 0
    /\ httpReply.posts = NilSlice

C17_CreatedAfterFilters ==
    (httpStatus = 200 /\ request.CreatedAfter # ZeroTime) =>
        \A k \in 1..Len(ReplyPosts) :
            ReplyPosts[k].CreatedAt > request.CreatedAfter

\* the per-source limit a request's limit stands for
EffectiveLimit(limit) ==
    IF limit <= 0 THEN 25 ELSE IF limit > 100 THEN 100 ELSE limit

\* the number of results of the output that belong to subreddit name
ResultsOf(name) ==
    Cardinality({k \in 1..Len(Posts) : Posts[k].SubredditName = name})

\* the number of positions of the request that name the subreddit
PositionsOf(name) ==
    Cardinality({i \in 1..Len(request.Subreddits) :
                    request.Subreddits[i] = name})

(***************************************************************************)
(* C18: on success the number of results for each source is at most the    *)
(* effective per-source limit, whatever number of items the content        *)
(* source returned.                                                        *)
(***************************************************************************)
C18_LimitBoundsResults ==
    Succeeded =>
        \A name \in SubredditNames :
            ResultsOf(name)
                <= PositionsOf(name) * EffectiveLimit(request.Limit)

(***************************************************************************)
(* C19: GetPosts and SearchPosts send a limit in 1..100 for every given    *)
(* limit: 25 when it is <= 0, 100 when it is > 100, the given limit        *)
(* otherwise; both operations apply the same rule.                         *)
(***************************************************************************)
C19_LimitClamp ==
    /\ clientCall.op \in {"GetPosts", "SearchPosts"} =>
          /\ clientCall.urlLimit \in 1..100
          /\ clientCall.limit <= 0 => clientCall.urlLimit = 25
          /\ clientCall.limit > 100 => clientCall.urlLimit = 100
          /\ clientCall.limit \in 1..100 =>
                clientCall.urlLimit = clientCall.limit
    /\ \A limit \in LimitInputs : ClampLimit(limit) = SearchPostsLimit(limit)

\* a search with a limit above 100
C19_Witness ==
    /\ clientCall.op = "SearchPosts"
    /\ clientCall.limit > 100
    /\ clientCall.urlLimit = 100

\* some message of the conversation has role "user"
SomeUserMessage ==
    \E i \in 1..Len(chatCall.messages) : chatCall.messages[i].Role = "user"

(***************************************************************************)
(* C20: when no message has role "user", Chat returns the error "no user   *)
(* messages found" and an empty text without sending any request; when     *)
(* some message has role "user", the request holds the whole message       *)
(* list, unchanged.                                                        *)
(***************************************************************************)
C20_UserMessageRequired ==
    /\ ~SomeUserMessage =>
          /\ chatCall.requests = 0
          /\ chatCall.state \in {"called", "returned"}
          /\ chatCall.state = "returned" =>
                /\ chatCall.text = ""
                /\ chatCall.error = <<"no user messages found">>
    /\ (SomeUserMessage /\ chatCall.state \in {"sent", "returned"}) =>
          /\ chatCall.requests = 1
          /\ chatCall.sent = chatCall.messages
          /\ chatCall.error # <<"no user messages found">>

\* a conversation of system and assistant messages only is refused
C20_Witness ==
    /\ chatCall.state = "returned"
    /\ Len(chatCall.messages) > 1
    /\ ~SomeUserMessage
    /\ chatCall.requests = 0
    /\ chatCall.error = <<"no user messages found">>

\* every component of the vector is 0, so that its magnitude is 0
AllZero(v) == \A i \in 1..Len(v) : v[i] = 0

(***************************************************************************)
(* C21: CosineSimilarity returns 0 whenever the two vectors differ in      *)
(* length and whenever at least one of them has magnitude 0.               *)
(***************************************************************************)
C21_DegenerateInputs ==
    cosCall.state = "returned" =>
        ((\/ Len(cosCall.a) # Len(cosCall.b)
          \/ AllZero(cosCall.a)
          \/ AllZero(cosCall.b)) => cosCall.result = 0)

\* two zero vectors of the same, positive length
C21_Witness ==
    /\ cosCall.state = "returned"
    /\ Len(cosCall.a) = Len(cosCall.b)
    /\ Len(cosCall.a) > 0
    /\ AllZero(cosCall.a)
    /\ AllZero(cosCall.b)
    /\ cosCall.result = 0

\* the retrieved item an item call is made for
ItemOf(call) == RetrievedAt(call.src)[call.item]

(***************************************************************************)
(* C22: the text of every item embedding call is the item's title, then    *)
(* ". ", then the item's body, neither of them trimmed; for an empty body  *)
(* it is the title followed by ". ".                                       *)
(***************************************************************************)
C22_EmbeddingText ==
    \A k \in CallIndexes :
        IsItemEmbedding(calls[k]) =>
            LET item == ItemOf(calls[k])
            IN  /\ calls[k].args = <<item.Title \o ". " \o item.Selftext>>
                /\ item.Selftext = "" =>
                      calls[k].args[1] = item.Title \o ". "

\* the embedding call of an item whose body is empty
C22_Witness ==
    \E k \in CallIndexes :
        /\ IsItemEmbedding(calls[k])
        /\ ItemOf(calls[k]).Selftext = ""
        /\ calls[k].args = <<"B. ">>

\* the score of the item a generation call is made for: the similarity of
\* the reply of the item's embedding call, the call before it, with the
\* reply of the topic embedding call
ScoreBefore(k) == CosineSimilarity(calls[k - 1].value, calls[1].value)

(***************************************************************************)
(* C23: every generation call of a run carries exactly one message, of     *)
(* role "user", whose content is the prompt built from the topic, the      *)
(* threshold, the classification, the score, the title and the body; no    *)
(* returned error stems from "no user messages found".                     *)
(***************************************************************************)
C23_OneUserMessage ==
    /\ \A k \in CallIndexes :
          calls[k].op = "Chat" =>
              LET score == ScoreBefore(k)
                  item == ItemOf(calls[k])
              IN  /\ Len(calls[k].args[1]) = 1
                  /\ calls[k].args[1][1].Role = "user"
                  /\ calls[k].args[1][1].Content =
                        Prompt(request.Topic, request.RelevanceThreshold,
                               score >= request.RelevanceThreshold, score,
                               item.Title, item.Selftext)
    /\ \A i \in 1..Len(err) : err[i] # "no user messages found"

\* a run fails on its generation call, for another reason
C23_Witness ==
    /\ Failed
    /\ LastCall.op = "Chat"
    /\ err[Len(err)] = "failed to call API"

\* <<source identifier, item>> of every retrieved item, by source position
\* and then by position in the retrieval result, from source position i on
RECURSIVE RetrievedItemsFrom(_)
RetrievedItemsFrom(i) ==
    IF i > Len(request.Subreddits) THEN <<>>
    ELSE [j \in 1..Len(RetrievedAt(i)) |->
             <<request.Subreddits[i], RetrievedAt(i)[j]>>]
         \o RetrievedItemsFrom(i + 1)

(***************************************************************************)
(* C24: the items under evaluation stay as they were retrieved, and on     *)
(* success each result carries its item's title, body, URL, score and      *)
(* comment count unchanged, the whole seconds of the item's creation time  *)
(* and the source identifier of the request position it was retrieved      *)
(* under.                                                                  *)
(***************************************************************************)
C24_ItemsUnaltered ==
    /\ pc \in {"forPost", "itemEmbedding", "summary", "chat"} =>
          subredditPosts = RetrievedAt(subredditIdx)
    /\ Succeeded =>
          LET retrieved == RetrievedItemsFrom(1)
          IN  /\ Len(Posts) = Len(retrieved)
              /\ \A k \in 1..Len(Posts) :
                LET name == retrieved[k][1]
                    item == retrieved[k][2]
                IN  /\ Posts[k].SubredditName = name
                    /\ Posts[k].Title = item.Title
                    /\ Posts[k].Content = item.Selftext
                    /\ Posts[k].Url = item.URL
                    /\ Posts[k].Score = item.Score
                    /\ Posts[k].NumComments = item.NumComments
                    /\ Posts[k].CreatedAt = item.CreatedUTC \div 10

\* a success with results of two source positions, the second result of
\* an item whose creation time has a fraction of a second
C24_Witness ==
    /\ Succeeded
    /\ Len(request.Subreddits) = 2
    /\ Len(Posts) > 2
    /\ \E k \in 1..Len(Posts) :
          /\ Posts[k].Title = "A"
          /\ Posts[k].CreatedAt = 1700
          /\ Posts[k].SubredditName = "r2"

\* call d is the call the code makes next after the completed call c
FollowsInOrder(c, d) ==
    CASE IsTopicEmbedding(c) ->
            IsRetrieval(d) /\ d.src = 1
      [] IsRetrieval(c) ->
            IF Len(c.value) > 0
            THEN IsItemEmbedding(d) /\ d.src = c.src /\ d.item = 1
            ELSE IsRetrieval(d) /\ d.src = c.src + 1
      [] IsItemEmbedding(c) ->
            d.op = "Chat" /\ d.src = c.src /\ d.item = c.item
      [] OTHER ->
            IF c.item < Len(RetrievedAt(c.src))
            THEN IsItemEmbedding(d) /\ d.src = c.src /\ d.item = c.item + 1
            ELSE IsRetrieval(d) /\ d.src = c.src + 1

(***************************************************************************)
(* C25: the external calls of a run are sequential and in a fixed order:   *)
(* a call starts only when the call before it has completed; the topic     *)
(* embedding is first; a retrieval is followed by the embedding call of    *)
(* its first item, an embedding call by the generation call of the same    *)
(* item, a generation call by the embedding call of the next item, and     *)
(* the retrieval of the next source follows the last item of a source.     *)
(***************************************************************************)
C25_SequentialCalls ==
    /\ calls # <<>> => IsTopicEmbedding(calls[1])
    /\ \A k \in 1..(Len(calls) - 1) :
          /\ calls[k].done
          /\ calls[k].ok
          /\ FollowsInOrder(calls[k], calls[k + 1])

\* the retrieval of the second source follows the generation call of the
\* last of several items of the first
C25_Witness ==
    \E k \in 2..Len(calls) :
        /\ IsRetrieval(calls[k])
        /\ calls[k].src = 2
        /\ calls[k - 1].op = "Chat"
        /\ calls[k - 1].item > 1

\* the result a run of the request produces for one retrieved item when it
\* runs alone
AloneDto(req, name, post) ==
    LET score == CosineSimilarity(
                     EmbeddingOf(post.Title \o ". " \o post.Selftext),
                     EmbeddingOf(req.Topic))
    IN  MapRedditResponseToSubredditPostDto(
            post, name, score, score >= req.RelevanceThreshold, ChatReply)

\* the results a run of the request produces alone from source position i on
RECURSIVE AloneDtosFrom(_, _)
AloneDtosFrom(req, i) ==
    IF i > Len(req.Subreddits) THEN <<>>
    ELSE [j \in 1..RunItems |->
             AloneDto(req, req.Subreddits[i],
                      Listing(req.Subreddits[i], RunItems)[j])]
         \o AloneDtosFrom(req, i + 1)

\* response and error of a run that runs alone
AloneResult(req, failing) ==
    IF failing = "Chat" /\ AloneDtosFrom(req, 1) # <<>>
    THEN [response |-> [Posts |-> NilSlice],
          err |-> <<"error evaluating subreddit posts",
                    "error getting relevance summary",
                    "error getting chat response", "failed to call API">>]
    ELSE [response |-> [Posts |-> MakeSlice(AloneDtosFrom(req, 1))],
          err |-> NoError]

(***************************************************************************)
(* C26: under every interleaving of concurrent runs on one service, the    *)
(* response and the error of each run are those the run produces alone     *)
(* with the same replies of the collaborators.                             *)
(***************************************************************************)
C26_RunsDoNotInterfere ==
    \A r \in 1..Len(runs) :
        runs[r].pc = "returned" =>
            /\ runs[r].response =
                  AloneResult(runs[r].request, runs[r].failing).response
            /\ runs[r].err =
                  AloneResult(runs[r].request, runs[r].failing).err

\* a run returns its results while a run for another topic is between its
\* calls
C26_Witness ==
    /\ Len(runs) > 1
    /\ runs[1].pc = "returned"
    /\ Len(runs[1].response.Posts.elems) > 1
    /\ runs[2].pc \in {"forSubreddit", "forPost", "summary"}
    /\ runs[2].request.Topic # runs[1].request.Topic

(***************************************************************************)
(* C27: for every request, also one whose search method is neither         *)
(* "search" nor "latest", item evaluation is never entered with an absent  *)
(* retrieval result: no run ends in the nil dereference of                 *)
(* evaluateSubredditPosts, which is the panic of a run whose last call is  *)
(* not a retrieval.                                                        *)
(***************************************************************************)
C27_NeverEvaluatesNil ==
    ~(/\ pc = "panicked"
      /\ ~IsRetrieval(LastCall)
      /\ subredditIdx <= Len(request.Subreddits))

(***************************************************************************)
(* C28: GetPosts and SearchPosts, of the client and of the service         *)
(* wrapper, return either a response and no error or no response and an    *)
(* error, whatever the HTTP outcome and whatever JSON body a 200 reply     *)
(* carries; the wrapper returns whenever the client has.                   *)
(***************************************************************************)
C28_ResponseXorError ==
    /\ clientCall.phase \in {"clientReturned", "serviceReturned"} =>
          (clientCall.response.nil <=> clientCall.error # NoError)
    /\ clientCall.phase # "servicePanicked"

\* call k is a successful item embedding call whose reply has another length
\* than the topic embedding
MismatchedEmbedding(k) ==
    /\ IsItemEmbedding(calls[k])
    /\ calls[k].done
    /\ calls[k].ok
    /\ Len(calls[k].value) # Len(calls[1].value)

\* the position in the output of the result of the item of call c
OutputIndex(c) ==
    RetrievedCountFrom(1) - RetrievedCountFrom(c.src) + c.item

(***************************************************************************)
(* C29: an item embedding of another length than the topic embedding does  *)
(* not fail the run: the item is scored 0, is relevant exactly when the    *)
(* threshold is <= 0, gets its generation call, and is in the output of a  *)
(* successful run.                                                         *)
(***************************************************************************)
C29_LengthMismatchScoresZero ==
    \A k \in CallIndexes :
        MismatchedEmbedding(k) =>
            /\ k = Len(calls) => (pc = "summary" /\ relevanceScore = 0
                                  /\ (isRelevant <=> request.RelevanceThreshold <= 0))
            /\ k < Len(calls) =>
                  /\ calls[k + 1].op = "Chat"
                  /\ calls[k + 1].item = calls[k].item
                  /\ calls[k + 1].args[1][1].Content[3]
                        = (request.RelevanceThreshold <= 0)
                  /\ calls[k + 1].args[1][1].Content[4] = 0
            /\ Succeeded =>
                  LET result == Posts[OutputIndex(calls[k])]
                  IN  /\ result.Title = ItemOf(calls[k]).Title
                      /\ result.RelevanceScore = 0
                      /\ result.IsRelevant
                            = (request.RelevanceThreshold <= 0)

\* a successful run with such an item under a threshold above 0
C29_Witness ==
    /\ Succeeded
    /\ request.RelevanceThreshold > 0
    /\ \E k \in CallIndexes :
          /\ MismatchedEmbedding(k)
          /\ Len(calls[k].value) > 0
          /\ ~Posts[OutputIndex(calls[k])].IsRelevant

(***************************************************************************)
(* C30: the relevance threshold given to the web client reaches the        *)
(* classification unchanged, for every value including 0: it is the        *)
(* threshold of the request body, of the bound request, and the value the  *)
(* scores of the response were compared with.                              *)
(***************************************************************************)
C30_ThresholdUnchanged ==
    webParams.given =>
        /\ httpBody.kind = "json" =>
              httpBody.relevance_threshold = webParams.relevance_threshold
        /\ pc \notin {"web", "bind", "rejected"} =>
              request.RelevanceThreshold = webParams.relevance_threshold
        /\ httpStatus = 200 =>
              \A k \in 1..Len(ReplyPosts) :
                  ReplyPosts[k].IsRelevant
                      <=> ReplyPosts[k].RelevanceScore
                              >= webParams.relevance_threshold

====
